---- MODULE Spec2Model ----
(***************************************************************************)
(* Instance-level confusion pipeline of reis/generic_dash.py               *)
(* (PointCloudDashboard): label preprocessing, per-scene instance matching *)
(* (get_confusion_info -> reis.confusion.instance_confusion_matrix) and    *)
(* aggregation (get_info -> reis.confusion.process_confusion_data).        *)
(*                                                                         *)
(* reis/confusion.py is not part of the sources at hand; the matcher and   *)
(* the aggregator are written from the design document (sections 4.1-4.3). *)
(***************************************************************************)
EXTENDS Integers, Sequences, FiniteSets, TLC

VARIABLES
    sem2ins_classes,  \* self.sem2ins_classes: class names skipped by the matcher
    disk,             \* the scene files in sorted order, each a raw point table
    dfs,              \* per file: the table its worker got from get_scene
    mappings,         \* per file: the table get_confusion_info returned
    done,             \* the files whose worker has returned
    infer_info,       \* self.infer_info
    confusion_info,   \* self.confusion_info
    mtx,              \* self.mtx
    pc,               \* "mapping" while the pool works, "done" after get_info returned,
                      \* "aborted" after load_info raised, "idle" before the first call
    finished,         \* the files of done in the order their workers returned
    failed,           \* the files whose worker raised
    cache,            \* the disk cache: info_key -> (infer_info, confusion_info, mtx)
    calls,            \* calls of load_info so far
    runs,             \* calls of get_info so far
    value,            \* scene_dropdown.value
    btn,              \* btn_next_scene.n_clicks, 0 before the first click
    active_cell,      \* confusion_table.active_cell: its row, NoCell while none is selected
    table_data,       \* confusion_table.data: the rows, each << >> or <<its "Scene">>
    returned,         \* what the last call of next_scene returned or raised
    pending,          \* the input that update_figure has still to answer
    _instances,       \* Singleton._instances
    the_instance,     \* the global the_instance
    objects,          \* the PointCloudDashboard objects created so far, by identity
    constructing,     \* the object whose __init__ is running
    returned_obj      \* what the last PointCloudDashboard(...) returned

run_vars == <<finished, failed, cache, calls, runs>>

ui_vars == <<value, btn, active_cell, table_data, returned, pending>>

singleton_vars == <<_instances, the_instance, objects, constructing, returned_obj>>

vars == <<sem2ins_classes, disk, dfs, mappings, done, infer_info, confusion_info, mtx, pc,
          run_vars, ui_vars, singleton_vars>>

----------------------------------------------------------------------------
(* Bounds of the model *)

MaxPts == 3       \* points of a folder of one scene
MaxScenes == 2    \* scene files in the folder
MaxRawPts == 2    \* points of a scene with missing or oversized labels
MaxFolderPts == 2 \* points of a folder of several scenes, all scenes together
MaxCalls == 2     \* calls of load_info
MaxClicks == 2    \* clicks on btn_next_scene
MaxRows == 1      \* rows of the instance table

----------------------------------------------------------------------------
(* Program constants *)

NaN == -2                 \* a missing label (what fillna replaces); no label of the model is -2
NO_INSTANCE == -1         \* the value fillna and the clamp write
ClampLimit == 4000000     \* 4e6
KeyBase == 1000           \* instance key = 1000 * semantic label + id
IouNum == 1               \* iou_threshold = 0.25 = IouNum / IouDen
IouDen == 4

classes == <<"c0", "c1">>
FP_NAME == "FP"
FN_NAME == "FN"

None == 0                 \* no object: the_instance before the first __init__
NoCell == -1              \* active_cell is None
cls == "PointCloudDashboard"
scenes_filetype == ".ply"

----------------------------------------------------------------------------
(* preprocess_scene: the instance label columns *)

fillna(v) == IF v = NaN THEN NO_INSTANCE ELSE v

\* the clamp with >= in place of >
clamp_at_limit(v) == IF v # NaN /\ v >= ClampLimit THEN NO_INSTANCE ELSE v

clamp(v) == IF v # NaN /\ v > ClampLimit THEN NO_INSTANCE ELSE v

preprocess_scene(df) ==
    [i \in DOMAIN df |->
        [df[i] EXCEPT !.instance_pred = clamp(fillna(@)),
                      !.instance_gt = fillna(clamp(fillna(@)))]]

get_scene(raw) == preprocess_scene(raw)

----------------------------------------------------------------------------
(* reis.confusion.instance_confusion_matrix, from sections 4.1 and 4.2 of   *)
(* the design document                                                     *)

Min(S) == CHOOSE x \in S : \A y \in S : x <= y

\* semantic label of a composite instance key
semantic_class(key) == key \div KeyBase

\* the integer semantic label as it is written into a label column
str(label) == ToString(label)

\* the points of the instance with this key in a label column
points(col, key) == {i \in DOMAIN col : col[i] = key}

skipped(key, skip_labels) ==
    /\ semantic_class(key) + 1 \in DOMAIN classes
    /\ classes[semantic_class(key) + 1] \in skip_labels

\* the extractor without the drop of the sentinel key
instances_keeps_sentinel(col, skip_labels) ==
    {k \in {col[i] : i \in DOMAIN col} : ~skipped(k, skip_labels)}

\* InstanceExtractor: the keys of the instances of a label column
instances(col, skip_labels) ==
    {k \in {col[i] : i \in DOMAIN col} : k # NO_INSTANCE /\ ~skipped(k, skip_labels)}

\* representative confidence of a predicted instance: that of its first point
confidence(pred_col, confs, p) == confs[Min(points(pred_col, p))]

inter(pred_col, gt_col, p, g) == Cardinality(points(pred_col, p) \cap points(gt_col, g))
union(pred_col, gt_col, p, g) == Cardinality(points(pred_col, p) \cup points(gt_col, g))

\* IoU(p, g) as the fraction <<numerator, denominator>>
IoU(pred_col, gt_col, p, g) ==
    <<inter(pred_col, gt_col, p, g), union(pred_col, gt_col, p, g)>>

\* a / b >= c / d for fractions with positive denominators
FracGeq(x, y) == x[1] * y[2] >= y[1] * x[2]

\* p is processed before q: higher confidence first, ties by instance key
before(pred_col, confs, p, q) ==
    \/ confidence(pred_col, confs, p) > confidence(pred_col, confs, q)
    \/ /\ confidence(pred_col, confs, p) = confidence(pred_col, confs, q)
       /\ p < q

RECURSIVE sort_by_confidence(_, _, _)
sort_by_confidence(pred_col, confs, P) ==
    IF P = {} THEN << >>
    ELSE LET p == CHOOSE x \in P : \A y \in P \ {x} : before(pred_col, confs, x, y)
         IN  <<p>> \o sort_by_confidence(pred_col, confs, P \ {p})

\* the unmatched ground truth p is assigned to, or NO_INSTANCE
best_gt(pred_col, gt_col, p, free, thr) ==
    LET cand == {g \in free : /\ inter(pred_col, gt_col, p, g) > 0
                              /\ FracGeq(IoU(pred_col, gt_col, p, g), thr)}
        best == {g \in cand : \A h \in cand :
                    FracGeq(IoU(pred_col, gt_col, p, g), IoU(pred_col, gt_col, p, h))}
    IN  IF cand = {} THEN NO_INSTANCE ELSE Min(best)

\* greedy that leaves an assigned ground truth among the free ones
RECURSIVE greedy_keeps_matched(_, _, _, _, _)
greedy_keeps_matched(pred_col, gt_col, order, free, thr) ==
    IF order = << >> THEN << >>
    ELSE LET p == Head(order)
             g == best_gt(pred_col, gt_col, p, free, thr)
         IN  IF g = NO_INSTANCE
             THEN <<[true |-> FP_NAME, pred |-> str(semantic_class(p)),
                     instance_gt |-> NaN, instance_pred |-> p,
                     iou |-> <<0, 1>>]>>
                  \o greedy_keeps_matched(pred_col, gt_col, Tail(order), free, thr)
             ELSE <<[true |-> str(semantic_class(g)), pred |-> str(semantic_class(p)),
                     instance_gt |-> g, instance_pred |-> p,
                     iou |-> IoU(pred_col, gt_col, p, g)]>>
                  \o greedy_keeps_matched(pred_col, gt_col, Tail(order), free, thr)

\* greedy assignment over the sorted predictions: the rows of the predictions
RECURSIVE greedy(_, _, _, _, _)
greedy(pred_col, gt_col, order, free, thr) ==
    IF order = << >> THEN << >>
    ELSE LET p == Head(order)
             g == best_gt(pred_col, gt_col, p, free, thr)
         IN  IF g = NO_INSTANCE
             THEN <<[true |-> FP_NAME, pred |-> str(semantic_class(p)),
                     instance_gt |-> NaN, instance_pred |-> p,
                     iou |-> <<0, 1>>]>>
                  \o greedy(pred_col, gt_col, Tail(order), free, thr)
             ELSE <<[true |-> str(semantic_class(g)), pred |-> str(semantic_class(p)),
                     instance_gt |-> g, instance_pred |-> p,
                     iou |-> IoU(pred_col, gt_col, p, g)]>>
                  \o greedy(pred_col, gt_col, Tail(order), free \ {g}, thr)

RECURSIVE fn_rows(_)
fn_rows(G) ==
    IF G = {} THEN << >>
    ELSE LET g == Min(G)
         IN  <<[true |-> str(semantic_class(g)), pred |-> FN_NAME,
                instance_gt |-> g, instance_pred |-> NaN,
                iou |-> <<0, 1>>]>> \o fn_rows(G \ {g})

instance_confusion_matrix(pred_col, gt_col, iou_threshold, skip_labels, confs) ==
    LET P == instances(pred_col, skip_labels)
        G == instances(gt_col, skip_labels)
        matched == greedy(pred_col, gt_col, sort_by_confidence(pred_col, confs, P),
                          G, iou_threshold)
        hit == {matched[i].instance_gt : i \in DOMAIN matched}
    IN  matched \o fn_rows(G \ hit)

----------------------------------------------------------------------------
(* reis.confusion.process_confusion_data, from section 4.3 of the design   *)
(* document                                                                *)

\* the semantic label written as str(label)
int(s) == CHOOSE c \in 0..(Len(classes) - 1) : str(c) = s

class_name(class_map, label) ==
    IF label \in {FP_NAME, FN_NAME} THEN label ELSE class_map[int(label)]

\* row and column of a class name in mtx; the last one is "no match"
mtx_index(class_map, name) ==
    IF name \in {FP_NAME, FN_NAME} THEN Cardinality(DOMAIN class_map) + 1
    ELSE 1 + CHOOSE c \in DOMAIN class_map : class_map[c] = name

count(info, t, p) == Cardinality({i \in DOMAIN info : info[i].true = t /\ info[i].pred = p})

process_confusion_data(info, class_map, skip) ==
    LET named == [i \in DOMAIN info |->
                    [info[i] EXCEPT !.true = class_name(class_map, @),
                                    !.pred = class_name(class_map, @)]]
        names == {class_map[c] : c \in DOMAIN class_map}
        K == Cardinality(DOMAIN class_map)
    IN  [confusion_info |->
            [tp \in (names \cup {FP_NAME}) \X (names \cup {FN_NAME}) |->
                count(named, tp[1], tp[2])],
         mtx |->
            [ij \in (1..(K + 1)) \X (1..(K + 1)) |->
                Cardinality({r \in DOMAIN named :
                    /\ mtx_index(class_map, named[r].true) = ij[1]
                    /\ mtx_index(class_map, named[r].pred) = ij[2]})],
         infer_info |-> named]

----------------------------------------------------------------------------
(* PointCloudDashboard *)

column(df, name) == [i \in DOMAIN df |-> df[i][name]]

\* get_confusion_info up to the call of the matcher: the table it works on
confusion_df(raw) ==
    LET df == get_scene(raw)
    IN  [i \in DOMAIN df |->
            [df[i] EXCEPT !.instance_pred = fillna(@), !.instance_gt = fillna(@)]]

\* get_confusion_info with the two label columns passed in each other's place
get_confusion_info_swapped(f, raw, skip_labels) ==
    LET df == confusion_df(raw)
        mapping == instance_confusion_matrix(
                       column(df, "instance_gt"), column(df, "instance_pred"),
                       <<IouNum, IouDen>>, skip_labels,
                       column(df, "semantic_pred_confs"))
    IN  [i \in DOMAIN mapping |->
            [true |-> mapping[i].true, pred |-> mapping[i].pred,
             instance_gt |-> mapping[i].instance_gt,
             instance_pred |-> mapping[i].instance_pred,
             iou |-> mapping[i].iou, scene |-> f]]

\* get_confusion_info with iou_threshold = 0.5
get_confusion_info_half(f, raw, skip_labels) ==
    LET df == confusion_df(raw)
        mapping == instance_confusion_matrix(
                       column(df, "instance_pred"), column(df, "instance_gt"),
                       <<1, 2>>, skip_labels,
                       column(df, "semantic_pred_confs"))
    IN  [i \in DOMAIN mapping |->
            [true |-> mapping[i].true, pred |-> mapping[i].pred,
             instance_gt |-> mapping[i].instance_gt,
             instance_pred |-> mapping[i].instance_pred,
             iou |-> mapping[i].iou, scene |-> f]]

\* get_confusion_info without the prediction confidences
get_confusion_info_no_confs(f, raw, skip_labels) ==
    LET df == confusion_df(raw)
        mapping == instance_confusion_matrix(
                       column(df, "instance_pred"), column(df, "instance_gt"),
                       <<IouNum, IouDen>>, skip_labels,
                       [i \in DOMAIN df |-> 1])
    IN  [i \in DOMAIN mapping |->
            [true |-> mapping[i].true, pred |-> mapping[i].pred,
             instance_gt |-> mapping[i].instance_gt,
             instance_pred |-> mapping[i].instance_pred,
             iou |-> mapping[i].iou, scene |-> f]]

\* get_confusion_info with no class skipped
get_confusion_info_no_skip(f, raw, skip_labels) ==
    LET df == confusion_df(raw)
        mapping == instance_confusion_matrix(
                       column(df, "instance_pred"), column(df, "instance_gt"),
                       <<IouNum, IouDen>>, {},
                       column(df, "semantic_pred_confs"))
    IN  [i \in DOMAIN mapping |->
            [true |-> mapping[i].true, pred |-> mapping[i].pred,
             instance_gt |-> mapping[i].instance_gt,
             instance_pred |-> mapping[i].instance_pred,
             iou |-> mapping[i].iou, scene |-> f]]

get_confusion_info(f, raw, skip_labels) ==
    LET df == confusion_df(raw)
        mapping == instance_confusion_matrix(
                       column(df, "instance_pred"), column(df, "instance_gt"),
                       <<IouNum, IouDen>>, skip_labels,
                       column(df, "semantic_pred_confs"))
    IN  [i \in DOMAIN mapping |->
            [true |-> mapping[i].true, pred |-> mapping[i].pred,
             instance_gt |-> mapping[i].instance_gt,
             instance_pred |-> mapping[i].instance_pred,
             iou |-> mapping[i].iou, scene |-> f]]

\* a concatenation that loses the first table
RECURSIVE concat_from_second(_, _)
concat_from_second(tables, n) ==
    IF n <= 1 THEN << >> ELSE concat_from_second(tables, n - 1) \o tables[n]

\* a concatenation in which each table replaces the ones before it
concat_keeps_last(tables, n) == IF n = 0 THEN << >> ELSE tables[n]

RECURSIVE concat(_, _)
concat(tables, n) == IF n = 0 THEN << >> ELSE concat(tables, n - 1) \o tables[n]

\* Pool.imap_unordered: the tables in the order the workers returned
imap_unordered(tables, order) == [i \in DOMAIN order |-> tables[order[i]]]

\* Pool.imap: the tables in the order of the files, whatever the order the
\* workers returned in
imap(tables, order) == tables

\* the tables the workers return for the scene files, in the order of the files
tables_of(files, skip) == [f \in DOMAIN files |-> get_confusion_info(f, files[f], skip)]

scenes_folder == "scenes"

\* load_info's key, of the folder and the class list only
info_key(folder, class_list) == <<folder, class_list>>

get_info(tables, skip) ==
    process_confusion_data(concat(tables, Len(tables)),
                           [c \in 0..(Len(classes) - 1) |-> classes[c + 1]], skip)

----------------------------------------------------------------------------
(* The scene tables the model runs on *)

\* instance keys of the model: one instance of class 0, one of class 1
Keys == {0, KeyBase}

Labels == {NO_INSTANCE} \cup Keys

\* confidence levels: two predicted instances are ordered or tied
ConfLevels == {1, 2}

\* labelled points; the confidence of a point without a prediction is not read
Rows ==
    {r \in [instance_pred : Labels, instance_gt : Labels, semantic_pred_confs : ConfLevels] :
        r.instance_pred = NO_INSTANCE => r.semantic_pred_confs = 1}

\* points as a loader may deliver them: missing labels, labels above the clamp
RawRows ==
    [instance_pred : {NaN, 0, ClampLimit + 1},
     instance_gt : {NaN, 0, ClampLimit + 1},
     semantic_pred_confs : {1}]

\* the points of a folder of several scenes
FolderRows == {r \in Rows : r.semantic_pred_confs = 1}

Scenes(rows, n) == [1..n -> rows]

\* scenes of n points; the points of one predicted instance carry one
\* confidence, so that the instance's confidence is that of any of its points
LabelledScenes(n) ==
    {s \in Scenes(Rows, n) : \A i, j \in 1..n :
        s[i].instance_pred = s[j].instance_pred
            => s[i].semantic_pred_confs = s[j].semantic_pred_confs}

\* the collections of k scenes with at most budget points together
RECURSIVE Collections(_, _)
Collections(k, budget) ==
    IF k = 0 THEN {<< >>}
    ELSE UNION {{<<s>> \o rest : s \in Scenes(FolderRows, n),
                                 rest \in Collections(k - 1, budget - n)} :
                n \in 1..budget}

\* the values of sem2ins_classes: no class, or the last one
SkipChoices == {{}, {classes[Len(classes)]}}

\* the scene of the design document's matching scenario: ground truth on the
\* points {1,2,3,4}, one prediction on {3,4,5,6}, both of class 0
overlap_scene ==
    [i \in 1..6 |->
        [instance_gt |-> IF i <= 4 THEN 0 ELSE NO_INSTANCE,
         instance_pred |-> IF i >= 3 THEN 0 ELSE NO_INSTANCE,
         semantic_pred_confs |-> 1]]

Folders ==
    {<<overlap_scene>>}
    \cup {<<s>> : s \in UNION {LabelledScenes(n) : n \in 1..MaxPts}}
    \cup {<<s>> : s \in UNION {Scenes(RawRows, n) : n \in 1..MaxRawPts}}
    \cup UNION {Collections(k, MaxFolderPts) : k \in 2..MaxScenes}

----------------------------------------------------------------------------
(* The scene dropdown, the Next button and the instance table *)

\* p.name and str(p) of the scene file f of the folder; f.stem is f
name(f) == <<f, scenes_filetype>>

path(f) == <<scenes_folder, f, scenes_filetype>>

scene_options(files) == [f \in DOMAIN files |-> [label |-> name(f), value |-> path(f)]]

Returned(v) == [kind |-> "return", value |-> v]

Raised(e) == [kind |-> e, value |-> << >>]

\* list.index and list[i] of Python, counting from 0
index(list, x) == (CHOOSE i \in DOMAIN list : list[i] = x /\ \A j \in 1..(i - 1) : list[j] # x) - 1

at(list, i) == list[i + 1]

has(list, i) == (i + 1) \in DOMAIN list

next_scene(options, val, n_clicks, cell, data) ==
    LET values == [i \in DOMAIN options |-> options[i].value]
        labels == [i \in DOMAIN options |-> options[i].label]
    IN  IF cell # NoCell
        THEN IF ~has(data, cell) THEN Raised("IndexError")
             ELSE IF at(data, cell) = << >> THEN Raised("KeyError")
             ELSE LET scene_label == <<at(data, cell)[1], scenes_filetype>>
                  IN  IF \E i \in DOMAIN labels : labels[i] = scene_label
                      THEN Returned(at(values, index(labels, scene_label)))
                      ELSE Raised("ValueError")
        ELSE IF n_clicks # 0
        THEN IF \E i \in DOMAIN values : values[i] = val
             THEN LET i_cur == index(values, val)
                  IN  IF has(options, i_cur + 1)
                      THEN Returned(at(options, i_cur + 1).value)
                      ELSE Raised("IndexError")
             ELSE Raised("ValueError")
        ELSE Returned(val)

\* the layout of setup_interface
Controls ==
    /\ value = scene_options(disk)[1].value
    /\ btn = 0
    /\ active_cell = NoCell
    /\ table_data = << << >> >>
    /\ returned = [kind |-> "none", value |-> << >>]
    /\ pending = "none"

----------------------------------------------------------------------------
(* Singleton and the global instance *)

get == the_instance

NoObject ==
    /\ _instances = [c \in {} |-> None]
    /\ the_instance = None
    /\ objects = << >>
    /\ constructing = None
    /\ returned_obj = None

\* __init__ of the only object has reached load_info
InInit ==
    /\ _instances = [c \in {} |-> None]
    /\ the_instance = 1
    /\ objects = <<[sem2ins_classes |-> sem2ins_classes]>>
    /\ constructing = 1
    /\ returned_obj = None

\* the only object has been constructed
Constructed ==
    /\ _instances = (cls :> 1)
    /\ the_instance = 1
    /\ objects = <<[sem2ins_classes |-> sem2ins_classes]>>
    /\ constructing = None
    /\ returned_obj = 1

----------------------------------------------------------------------------
(* The pipeline run of one construction *)

Init ==
    /\ sem2ins_classes \in SkipChoices
    /\ disk \in Folders
    /\ dfs = [f \in DOMAIN disk |-> << >>]
    /\ mappings = [f \in DOMAIN disk |-> << >>]
    /\ done = {}
    /\ infer_info = << >>
    /\ confusion_info = << >>
    /\ mtx = << >>
    /\ pc = "mapping"
    /\ finished = << >>
    /\ failed = {}
    /\ cache = [k \in {} |-> << >>]
    /\ calls = 1
    /\ runs = 1
    /\ Controls
    /\ InInit

\* one worker of the pool: get_confusion_info on one file
Worker(f) ==
    /\ pc = "mapping"
    /\ f \notin done \cup failed
    /\ dfs' = [dfs EXCEPT ![f] = confusion_df(disk[f])]
    /\ mappings' = [mappings EXCEPT ![f] = get_confusion_info(f, disk[f], sem2ins_classes)]
    /\ done' = done \cup {f}
    /\ finished' = Append(finished, f)
    /\ UNCHANGED <<sem2ins_classes, disk, infer_info, confusion_info, mtx, pc,
                   failed, cache, calls, runs>>
    /\ UNCHANGED <<ui_vars, singleton_vars>>

\* get_info that leaves out the scenes whose worker raised
GetInfo_skips_failed ==
    /\ pc = "mapping"
    /\ done \cup failed = DOMAIN disk
    /\ LET data == get_info(imap(mappings, finished), sem2ins_classes)
       IN  /\ infer_info' = data.infer_info
           /\ confusion_info' = data.confusion_info
           /\ mtx' = data.mtx
           /\ cache' = (info_key(scenes_folder, classes) :> data) @@ cache
    /\ pc' = "done"
    /\ UNCHANGED <<sem2ins_classes, disk, dfs, mappings, done, finished, failed, calls, runs>>
    /\ UNCHANGED <<ui_vars, singleton_vars>>

\* get_info after the pool has returned every table, load_info's store into
\* the cache and its assignment
GetInfo ==
    /\ pc = "mapping"
    /\ done = DOMAIN disk
    /\ LET data == get_info(imap(mappings, finished), sem2ins_classes)
       IN  /\ infer_info' = data.infer_info
           /\ confusion_info' = data.confusion_info
           /\ mtx' = data.mtx
           /\ cache' = (info_key(scenes_folder, classes) :> data) @@ cache
    /\ pc' = "done"
    /\ UNCHANGED <<sem2ins_classes, disk, dfs, mappings, done, finished, failed, calls, runs>>
    /\ UNCHANGED <<ui_vars, singleton_vars>>

Next == (\E f \in DOMAIN disk : Worker(f)) \/ GetInfo

Spec == Init /\ [][Next]_vars

----------------------------------------------------------------------------
(* preprocess_scene on its own, on every kind of raw label *)

RawLabels == {NaN, -3, NO_INSTANCE, KeyBase, ClampLimit, ClampLimit + 1}

InitPre ==
    /\ sem2ins_classes = {}
    /\ disk \in {<<s>> : s \in UNION {Scenes([instance_pred : RawLabels,
                                                instance_gt : RawLabels,
                                                semantic_pred_confs : {1}], n) :
                                        n \in 1..MaxRawPts}}
    /\ dfs = [f \in DOMAIN disk |-> << >>]
    /\ mappings = [f \in DOMAIN disk |-> << >>]
    /\ done = {}
    /\ infer_info = << >>
    /\ confusion_info = << >>
    /\ mtx = << >>
    /\ pc = "raw"
    /\ finished = << >>
    /\ failed = {}
    /\ cache = [k \in {} |-> << >>]
    /\ calls = 0
    /\ runs = 0
    /\ Controls
    /\ Constructed

PreprocessScene ==
    /\ pc = "raw"
    /\ dfs' = [f \in DOMAIN disk |-> preprocess_scene(disk[f])]
    /\ pc' = "preprocessed"
    /\ UNCHANGED <<sem2ins_classes, disk, mappings, done, infer_info, confusion_info, mtx,
                   run_vars>>
    /\ UNCHANGED <<ui_vars, singleton_vars>>

NextPre == PreprocessScene

SpecPre == InitPre /\ [][NextPre]_vars

----------------------------------------------------------------------------
(* load_info with the disk cache, failing workers and changing scene files *)

\* one-point scenes: a matched pair, a prediction alone, a ground truth alone
RunRows == {r \in FolderRows :
                /\ r.instance_pred \in {NO_INSTANCE, 0}
                /\ r.instance_gt \in {NO_INSTANCE, 0}
                /\ r.instance_pred # r.instance_gt \/ r.instance_pred = 0}

RECURSIVE RunFolders(_)
RunFolders(k) ==
    IF k = 0 THEN {<< >>}
    ELSE {<<s>> \o rest : s \in Scenes(RunRows, 1), rest \in RunFolders(k - 1)}

AllRunFolders == UNION {RunFolders(k) : k \in 1..MaxScenes}

InitRun ==
    /\ sem2ins_classes = {}
    /\ disk \in AllRunFolders
    /\ dfs = [f \in DOMAIN disk |-> << >>]
    /\ mappings = [f \in DOMAIN disk |-> << >>]
    /\ done = {}
    /\ infer_info = << >>
    /\ confusion_info = << >>
    /\ mtx = << >>
    /\ pc = "idle"
    /\ finished = << >>
    /\ failed = {}
    /\ cache = [k \in {} |-> << >>]
    /\ calls = 0
    /\ runs = 0
    /\ Controls
    /\ Constructed

\* load_info that never looks into the cache
LoadInfo_ignores_cache ==
    /\ pc # "mapping"
    /\ calls < MaxCalls
    /\ calls' = calls + 1
    /\ dfs' = [f \in DOMAIN disk |-> << >>]
    /\ mappings' = [f \in DOMAIN disk |-> << >>]
    /\ done' = {}
    /\ finished' = << >>
    /\ failed' = {}
    /\ runs' = runs + 1
    /\ pc' = "mapping"
    /\ UNCHANGED <<infer_info, confusion_info, mtx, sem2ins_classes, disk, cache>>
    /\ UNCHANGED <<ui_vars, singleton_vars>>

\* a call of load_info: on a cache hit the stored triple is assigned, on a miss
\* get_info lists the files and starts the pool
LoadInfo ==
    /\ pc # "mapping"
    /\ calls < MaxCalls
    /\ calls' = calls + 1
    /\ IF info_key(scenes_folder, classes) \in DOMAIN cache
       THEN LET data == cache[info_key(scenes_folder, classes)]
            IN  /\ infer_info' = data.infer_info
                /\ confusion_info' = data.confusion_info
                /\ mtx' = data.mtx
                /\ pc' = "done"
                /\ UNCHANGED <<dfs, mappings, done, finished, failed, runs>>
       ELSE /\ runs' = runs + 1
            /\ dfs' = [f \in DOMAIN disk |-> << >>]
            /\ mappings' = [f \in DOMAIN disk |-> << >>]
            /\ done' = {}
            /\ finished' = << >>
            /\ failed' = {}
            /\ pc' = "mapping"
            /\ UNCHANGED <<infer_info, confusion_info, mtx>>
    /\ UNCHANGED <<sem2ins_classes, disk, cache>>
    /\ UNCHANGED <<ui_vars, singleton_vars>>

\* a worker whose load_scene or matching raises
WorkerFails(f) ==
    /\ pc = "mapping"
    /\ f \notin done \cup failed
    /\ failed' = failed \cup {f}
    /\ UNCHANGED <<sem2ins_classes, disk, dfs, mappings, done, infer_info, confusion_info,
                   mtx, pc, finished, cache, calls, runs>>
    /\ UNCHANGED <<ui_vars, singleton_vars>>

\* list(mapper) reaches the first file whose worker raised: the exception
\* leaves get_info and load_info, the pool is terminated
LoadInfoRaises ==
    /\ pc = "mapping"
    /\ failed # {}
    /\ \A f \in DOMAIN disk : f < Min(failed) => f \in done
    /\ pc' = "aborted"
    /\ UNCHANGED <<sem2ins_classes, disk, dfs, mappings, done, infer_info, confusion_info,
                   mtx, run_vars>>
    /\ UNCHANGED <<ui_vars, singleton_vars>>

\* the scene files are rewritten while no call runs
ChangeScenes ==
    /\ pc \in {"idle", "done", "aborted"}
    /\ disk' \in AllRunFolders \ {disk}
    /\ UNCHANGED <<sem2ins_classes, dfs, mappings, done, infer_info, confusion_info,
                   mtx, pc, run_vars>>
    /\ UNCHANGED <<ui_vars, singleton_vars>>

NextRun ==
    \/ LoadInfo
    \/ \E f \in DOMAIN disk : Worker(f)
    \/ \E f \in DOMAIN disk : WorkerFails(f)
    \/ GetInfo
    \/ LoadInfoRaises
    \/ ChangeScenes

SpecRun == InitRun /\ [][NextRun]_vars

----------------------------------------------------------------------------
(* The callbacks of the scene dropdown *)

\* folders of one to MaxScenes scenes with the same points
UiFolders == {d \in AllRunFolders : \A f \in DOMAIN d : d[f] = d[1]}

\* the tables display_click_data can return: rows of instances, each with the
\* stem of one of the scene files in its "Scene" column
TableData == UNION {[1..n -> {<<f>> : f \in DOMAIN disk}] : n \in 1..MaxRows}

InitUi ==
    /\ sem2ins_classes = {}
    /\ disk \in UiFolders
    /\ dfs = [f \in DOMAIN disk |-> confusion_df(disk[f])]
    /\ mappings = tables_of(disk, sem2ins_classes)
    /\ done = DOMAIN disk
    /\ LET data == get_info(mappings, sem2ins_classes)
       IN  /\ infer_info = data.infer_info
           /\ confusion_info = data.confusion_info
           /\ mtx = data.mtx
           /\ cache = (info_key(scenes_folder, classes) :> data)
    /\ pc = "done"
    /\ finished = [f \in DOMAIN disk |-> f]
    /\ failed = {}
    /\ calls = 1
    /\ runs = 1
    /\ Controls
    /\ Constructed

\* Dash writes what the callback returned to scene_dropdown.value; when the
\* callback raised, the value stays; a new value is an input of update_figure
Output(result) ==
    /\ returned' = result
    /\ value' = IF result.kind = "return" THEN result.value ELSE value
    /\ pending' = IF result.kind = "return" /\ result.value # value
                  THEN "scene_dropdown" ELSE pending

\* the call of next_scene when the page loads (prevent_initial_call=False)
InitialCall ==
    /\ returned.kind = "none"
    /\ Output(next_scene(scene_options(disk), value, btn, active_cell, table_data))
    /\ UNCHANGED <<btn, active_cell, table_data>>
    /\ UNCHANGED <<sem2ins_classes, disk, dfs, mappings, done, infer_info, confusion_info,
                   mtx, pc, run_vars, singleton_vars>>

\* a click on btn_next_scene
ClickNext ==
    /\ returned.kind # "none"
    /\ btn < MaxClicks
    /\ btn' = btn + 1
    /\ Output(next_scene(scene_options(disk), value, btn + 1, active_cell, table_data))
    /\ UNCHANGED <<active_cell, table_data>>
    /\ UNCHANGED <<sem2ins_classes, disk, dfs, mappings, done, infer_info, confusion_info,
                   mtx, pc, run_vars, singleton_vars>>

\* a click on a cell of row r of the instance table
SelectCell(r) ==
    /\ returned.kind # "none"
    /\ has(table_data, r)
    /\ at(table_data, r) # << >>
    /\ r # active_cell
    /\ active_cell' = r
    /\ Output(next_scene(scene_options(disk), value, btn, r, table_data))
    /\ UNCHANGED <<btn, table_data>>
    /\ UNCHANGED <<sem2ins_classes, disk, dfs, mappings, done, infer_info, confusion_info,
                   mtx, pc, run_vars, singleton_vars>>

\* a click on a cell of the confusion matrix
ClickConfusion ==
    /\ returned.kind # "none"
    /\ pending # "confusion_mtx"
    /\ pending' = "confusion_mtx"
    /\ UNCHANGED <<value, btn, active_cell, table_data, returned>>
    /\ UNCHANGED <<sem2ins_classes, disk, dfs, mappings, done, infer_info, confusion_info,
                   mtx, pc, run_vars, singleton_vars>>

\* update_figure: the instance table of the clicked matrix cell, [{}] for
\* every other input
UpdateFigure ==
    /\ pending # "none"
    /\ table_data' \in IF pending = "confusion_mtx" THEN TableData ELSE {<< << >> >>}
    /\ pending' = "none"
    /\ UNCHANGED <<value, btn, active_cell, returned>>
    /\ UNCHANGED <<sem2ins_classes, disk, dfs, mappings, done, infer_info, confusion_info,
                   mtx, pc, run_vars, singleton_vars>>

NextUi ==
    \/ InitialCall
    \/ ClickNext
    \/ \E r \in 0..(MaxRows - 1) : SelectCell(r)
    \/ ClickConfusion
    \/ UpdateFigure

SpecUi == InitUi /\ [][NextUi]_vars

----------------------------------------------------------------------------
(* Constructions of PointCloudDashboard *)

InitSingleton ==
    /\ sem2ins_classes = {}
    /\ disk \in AllRunFolders
    /\ dfs = [f \in DOMAIN disk |-> << >>]
    /\ mappings = [f \in DOMAIN disk |-> << >>]
    /\ done = {}
    /\ infer_info = << >>
    /\ confusion_info = << >>
    /\ mtx = << >>
    /\ pc = "idle"
    /\ finished = << >>
    /\ failed = {}
    /\ cache = [k \in {} |-> << >>]
    /\ calls = 0
    /\ runs = 0
    /\ Controls
    /\ NoObject

\* PointCloudDashboard(..., sem2ins_classes=skip): Singleton.__call__, and for a
\* new object __init__ up to its call of load_info
Construct(skip) ==
    /\ constructing = None
    /\ pc # "mapping"
    /\ IF cls \in DOMAIN _instances
       THEN /\ returned_obj' = _instances[cls]
            /\ UNCHANGED <<sem2ins_classes, pc, the_instance, objects, constructing>>
       ELSE /\ calls < MaxCalls
            /\ objects' = Append(objects, [sem2ins_classes |-> skip])
            /\ sem2ins_classes' = skip
            /\ the_instance' = Len(objects) + 1
            /\ constructing' = Len(objects) + 1
            /\ pc' = "init"
            /\ UNCHANGED returned_obj
    /\ UNCHANGED <<disk, dfs, mappings, done, infer_info, confusion_info, mtx, run_vars,
                   ui_vars, _instances>>

\* __init__ returns: Singleton.__call__ stores the object and returns it
InitReturns ==
    /\ constructing # None
    /\ pc = "done"
    /\ _instances' = (cls :> constructing) @@ _instances
    /\ returned_obj' = constructing
    /\ constructing' = None
    /\ UNCHANGED <<sem2ins_classes, disk, dfs, mappings, done, infer_info, confusion_info,
                   mtx, pc, run_vars, ui_vars, the_instance, objects>>

\* load_info raised: the exception leaves __init__ and Singleton.__call__
InitRaises ==
    /\ constructing # None
    /\ pc = "aborted"
    /\ returned_obj' = None
    /\ constructing' = None
    /\ UNCHANGED <<sem2ins_classes, disk, dfs, mappings, done, infer_info, confusion_info,
                   mtx, pc, run_vars, ui_vars, _instances, the_instance, objects>>

NextSingleton ==
    \/ \E skip \in SkipChoices : Construct(skip)
    \/ pc = "init" /\ LoadInfo
    \/ \E f \in DOMAIN disk : Worker(f)
    \/ \E f \in DOMAIN disk : WorkerFails(f)
    \/ GetInfo
    \/ LoadInfoRaises
    \/ InitReturns
    \/ InitRaises

SpecSingleton == InitSingleton /\ [][NextSingleton]_vars

----------------------------------------------------------------------------
(* The instances and the match table of a scene whose worker has returned *)

pred_col(f) == column(dfs[f], "instance_pred")
gt_col(f) == column(dfs[f], "instance_gt")
conf_col(f) == column(dfs[f], "semantic_pred_confs")

\* the instances the matcher works on
P(f) == instances(pred_col(f), sem2ins_classes)
G(f) == instances(gt_col(f), sem2ins_classes)

is_match(r) == r.true # FP_NAME /\ r.pred # FN_NAME
is_fp(r) == r.true = FP_NAME
is_fn(r) == r.pred = FN_NAME

rows_of(T, col, key) == {i \in DOMAIN T : T[i][col] = key}

iou(f, p, g) == IoU(pred_col(f), gt_col(f), p, g)
above_threshold(f, p, g) == FracGeq(iou(f, p, g), <<IouNum, IouDen>>)

----------------------------------------------------------------------------
\* C1: in the table of every scene the matching is one-to-one: no predicted
\* instance is in two matched rows and no ground-truth instance is in two
\* matched rows.
C1_OneToOne ==
    \A f \in done :
        \A i, j \in DOMAIN mappings[f] :
            (i # j /\ is_match(mappings[f][i]) /\ is_match(mappings[f][j]))
                => /\ mappings[f][i].instance_pred # mappings[f][j].instance_pred
                   /\ mappings[f][i].instance_gt # mappings[f][j].instance_gt

\* a scene where two predictions both reach the threshold on one ground truth
\* and the table is there
C1_Witness ==
    \E f \in done : \E g \in G(f) : \E p, q \in P(f) :
        /\ p # q
        /\ above_threshold(f, p, g)
        /\ above_threshold(f, q, g)
        /\ \E i \in DOMAIN mappings[f] : is_match(mappings[f][i])

\* C2: in the table of every scene each ground-truth instance the matcher
\* works on is in exactly one row (a matched row or a row with pred = FN_NAME),
\* each predicted instance is in exactly one row (a matched row or a row with
\* true = FP_NAME), and the table has no other row.
C2_EveryInstanceOnce ==
    \A f \in done :
        LET T == mappings[f]
        IN  /\ \A g \in G(f) :
                /\ Cardinality(rows_of(T, "instance_gt", g)) = 1
                /\ \A i \in rows_of(T, "instance_gt", g) : is_match(T[i]) \/ is_fn(T[i])
            /\ \A p \in P(f) :
                /\ Cardinality(rows_of(T, "instance_pred", p)) = 1
                /\ \A i \in rows_of(T, "instance_pred", p) : is_match(T[i]) \/ is_fp(T[i])
            /\ \A i \in DOMAIN T :
                \/ is_match(T[i]) /\ T[i].instance_gt \in G(f) /\ T[i].instance_pred \in P(f)
                \/ is_fp(T[i]) /\ ~is_fn(T[i]) /\ T[i].instance_pred \in P(f)
                \/ is_fn(T[i]) /\ ~is_fp(T[i]) /\ T[i].instance_gt \in G(f)

\* a table with a matched row, an FP row and an FN row
C2_Witness ==
    \E f \in done : \E i, j, k \in DOMAIN mappings[f] :
        is_match(mappings[f][i]) /\ is_fp(mappings[f][j]) /\ is_fn(mappings[f][k])

\* C3: the matched pairs are those of the greedy reference procedure: taking
\* the predicted instances by descending confidence (ties by key), p is matched
\* exactly when a ground truth not matched to an earlier prediction has an IoU
\* with p of at least the threshold, and then to one of the highest IoU.
taken_before(f, p) ==
    {mappings[f][j].instance_gt : j \in {k \in DOMAIN mappings[f] :
        /\ is_match(mappings[f][k])
        /\ before(pred_col(f), conf_col(f), mappings[f][k].instance_pred, p)}}

candidates(f, p) == {g \in G(f) \ taken_before(f, p) : above_threshold(f, p, g)}

C3_GreedyReference ==
    \A f \in done : \A p \in P(f) :
        \E i \in DOMAIN mappings[f] :
            /\ mappings[f][i].instance_pred = p
            /\ IF candidates(f, p) = {}
               THEN is_fp(mappings[f][i])
               ELSE /\ is_match(mappings[f][i])
                    /\ mappings[f][i].instance_gt \in candidates(f, p)
                    /\ \A h \in candidates(f, p) :
                          FracGeq(iou(f, p, mappings[f][i].instance_gt), iou(f, p, h))

\* a prediction that had two candidates of different IoU and got the better one
C3_Witness ==
    \E f \in done : \E p \in P(f) : \E g, h \in candidates(f, p) :
        /\ ~FracGeq(iou(f, p, h), iou(f, p, g))
        /\ \E i \in DOMAIN mappings[f] :
            mappings[f][i].instance_pred = p /\ mappings[f][i].instance_gt = g

\* C4: when two predicted instances both reach the threshold on the same
\* ground-truth instance and on no other, the one of higher confidence is
\* matched to it and the other one is in an FP row.
competing(f, p, q, g) ==
    /\ p # q
    /\ above_threshold(f, p, g)
    /\ above_threshold(f, q, g)
    /\ \A h \in G(f) \ {g} : ~above_threshold(f, p, h) /\ ~above_threshold(f, q, h)
    /\ confidence(pred_col(f), conf_col(f), p) > confidence(pred_col(f), conf_col(f), q)

C4_HigherConfidenceWins ==
    \A f \in done : \A g \in G(f) : \A p, q \in P(f) :
        competing(f, p, q, g)
            => /\ \E i \in DOMAIN mappings[f] :
                    /\ is_match(mappings[f][i])
                    /\ mappings[f][i].instance_pred = p
                    /\ mappings[f][i].instance_gt = g
               /\ \E j \in DOMAIN mappings[f] :
                    /\ is_fp(mappings[f][j])
                    /\ mappings[f][j].instance_pred = q

\* the loser has the larger IoU, and has the smaller key
C4_Witness ==
    \E f \in done : \E g \in G(f) : \E p, q \in P(f) :
        /\ competing(f, p, q, g)
        /\ ~FracGeq(iou(f, p, g), iou(f, q, g))
        /\ q < p

----------------------------------------------------------------------------
\* C5: a scene with one ground-truth and one predicted instance of the same
\* class has one matched row on the diagonal exactly when their IoU is at
\* least the threshold, and one FP row and one FN row of that class otherwise;
\* so at 0.25 (the threshold get_confusion_info passes) as at 0.5, and in mtx.
table_at(f, thr) ==
    instance_confusion_matrix(pred_col(f), gt_col(f), thr, sem2ins_classes, conf_col(f))

lone_pair(f, p, g) ==
    P(f) = {p} /\ G(f) = {g} /\ semantic_class(p) = semantic_class(g)

pair_table(T, f, p, g, thr) ==
    IF FracGeq(iou(f, p, g), thr)
    THEN /\ Len(T) = 1
         /\ is_match(T[1])
         /\ T[1].true = str(semantic_class(g))
         /\ T[1].pred = str(semantic_class(p))
         /\ T[1].instance_gt = g /\ T[1].instance_pred = p
    ELSE /\ Len(T) = 2
         /\ \E i, j \in 1..2 :
              /\ is_fp(T[i]) /\ T[i].pred = str(semantic_class(p)) /\ T[i].instance_pred = p
              /\ is_fn(T[j]) /\ T[j].true = str(semantic_class(g)) /\ T[j].instance_gt = g

NoMatch == Len(classes) + 1

pair_mtx(f, p, g) ==
    LET c == semantic_class(g) + 1
    IN  IF FracGeq(iou(f, p, g), <<IouNum, IouDen>>)
        THEN \A ij \in DOMAIN mtx : mtx[ij] = IF ij = <<c, c>> THEN 1 ELSE 0
        ELSE \A ij \in DOMAIN mtx :
                mtx[ij] = IF ij \in {<<c, NoMatch>>, <<NoMatch, c>>} THEN 1 ELSE 0

C5_ThresholdDecides ==
    \A f \in done : \A p \in P(f) : \A g \in G(f) :
        lone_pair(f, p, g)
            => /\ pair_table(mappings[f], f, p, g, <<IouNum, IouDen>>)
               /\ pair_table(table_at(f, <<1, 2>>), f, p, g, <<1, 2>>)
               /\ (pc = "done" /\ Len(disk) = 1) => pair_mtx(f, p, g)

\* the scenario scene: matched at 0.25 with mtx[0][0] = 1, FP and FN at 0.5
C5_Witness ==
    /\ disk = <<overlap_scene>>
    /\ pc = "done"
    /\ lone_pair(1, 0, 0)
    /\ iou(1, 0, 0) = <<2, 6>>
    /\ mtx[<<1, 1>>] = 1
    /\ Len(table_at(1, <<1, 2>>)) = 2

\* C6: a predicted instance that shares no point with any ground-truth
\* instance is in an FP row and in no matched row.
gt_keys(f) == {gt_col(f)[i] : i \in DOMAIN gt_col(f)} \ {NO_INSTANCE}

no_overlap(f, p) == \A g \in gt_keys(f) : inter(pred_col(f), gt_col(f), p, g) = 0

C6_NoOverlapIsFP ==
    \A f \in done : \A p \in P(f) :
        no_overlap(f, p)
            => /\ \E i \in DOMAIN mappings[f] :
                    is_fp(mappings[f][i]) /\ mappings[f][i].instance_pred = p
               /\ \A i \in DOMAIN mappings[f] :
                    mappings[f][i].instance_pred = p => ~is_match(mappings[f][i])

\* such a prediction of the highest confidence, beside an unmatched ground
\* truth of its own class
C6_Witness ==
    \E f \in done : \E p \in P(f) : \E g \in G(f) :
        /\ no_overlap(f, p)
        /\ \A c \in ConfLevels : confidence(pred_col(f), conf_col(f), p) >= c
        /\ semantic_class(g) = semantic_class(p)
        /\ \E i \in DOMAIN mappings[f] :
            is_fn(mappings[f][i]) /\ mappings[f][i].instance_gt = g

\* C7: after aggregation the cells of mtx, the extra row and column included,
\* add up to the number of records: the matched, FP and FN rows of all tables.
RECURSIVE SumOver(_, _)
SumOver(fn, S) ==
    IF S = {} THEN 0
    ELSE LET x == CHOOSE y \in S : TRUE IN fn[x] + SumOver(fn, S \ {x})

records(f) ==
    Cardinality({i \in DOMAIN mappings[f] : is_match(mappings[f][i])})
    + Cardinality({i \in DOMAIN mappings[f] : is_fp(mappings[f][i])})
    + Cardinality({i \in DOMAIN mappings[f] : is_fn(mappings[f][i])})

C7_CellsSumToRecords ==
    pc = "done"
        => /\ SumOver(mtx, DOMAIN mtx) = SumOver([f \in DOMAIN disk |-> records(f)], DOMAIN disk)
           /\ SumOver(mtx, DOMAIN mtx) = Len(infer_info)

\* two scenes aggregated, with a matched, an FP and an FN record between them
C7_Witness ==
    /\ pc = "done"
    /\ Len(disk) >= 2
    /\ \A f \in DOMAIN disk : Len(mappings[f]) >= 1
    /\ \E i \in DOMAIN infer_info : is_match(infer_info[i])
    /\ \E i \in DOMAIN infer_info : is_fp(infer_info[i]) \/ is_fn(infer_info[i])
    /\ mtx[<<NoMatch, NoMatch>>] = 0

\* C8: the sentinel -1 is no instance: it is not among the instances given to
\* the matcher, no row has it as a key, and no point labelled -1 in a column
\* is a point of an instance some row names in that column.
C8_SentinelIsNoInstance ==
    \A f \in done :
        /\ NO_INSTANCE \notin P(f) \cup G(f)
        /\ \A i \in DOMAIN mappings[f] :
            /\ mappings[f][i].instance_pred # NO_INSTANCE
            /\ mappings[f][i].instance_gt # NO_INSTANCE
            /\ \A pt \in DOMAIN dfs[f] :
                /\ pred_col(f)[pt] = NO_INSTANCE
                    => pt \notin points(pred_col(f), mappings[f][i].instance_pred)
                /\ gt_col(f)[pt] = NO_INSTANCE
                    => pt \notin points(gt_col(f), mappings[f][i].instance_gt)

\* a scene with a point unlabelled in both columns, a point whose missing
\* label became -1, and a row for a real instance
C8_Witness ==
    \E f \in done :
        /\ \E pt \in DOMAIN dfs[f] :
            pred_col(f)[pt] = NO_INSTANCE /\ gt_col(f)[pt] = NO_INSTANCE
        /\ \E pt \in DOMAIN dfs[f] :
            disk[f][pt].instance_gt = NaN /\ gt_col(f)[pt] = NO_INSTANCE
        /\ Len(mappings[f]) >= 1

\* C9: preprocess_scene writes -1 for every label that is missing or greater
\* than 4,000,000, in instance_pred and in instance_gt, and leaves every other
\* label as it was; afterwards no label is missing or greater than 4,000,000.
preprocessed(raw, out) ==
    /\ out = IF raw = NaN \/ raw > ClampLimit THEN NO_INSTANCE ELSE raw
    /\ out # NaN
    /\ out <= ClampLimit

C9_Preprocessing ==
    pc = "preprocessed"
        => \A f \in DOMAIN disk :
            /\ DOMAIN dfs[f] = DOMAIN disk[f]
            /\ \A i \in DOMAIN disk[f] :
                /\ preprocessed(disk[f][i].instance_pred, dfs[f][i].instance_pred)
                /\ preprocessed(disk[f][i].instance_gt, dfs[f][i].instance_gt)

\* a table with a missing label, a label just above the limit, the label
\* 4,000,000 itself and an ordinary key
C9_Witness ==
    /\ pc = "preprocessed"
    /\ \E i, j \in DOMAIN disk[1] :
        /\ disk[1][i].instance_pred = NaN
        /\ disk[1][i].instance_gt = ClampLimit + 1
        /\ disk[1][j].instance_pred = ClampLimit
        /\ dfs[1][j].instance_pred = ClampLimit
        /\ disk[1][j].instance_gt = KeyBase

\* C10: the instances of a class in sem2ins_classes are in no row, and the
\* table is the one the same scene gives when these instances are unlabelled
\* and no class is skipped.
skip_class(label) ==
    /\ label \notin {NaN, NO_INSTANCE}
    /\ semantic_class(label) + 1 \in DOMAIN classes
    /\ classes[semantic_class(label) + 1] \in sem2ins_classes

without_skipped(raw) ==
    [i \in DOMAIN raw |->
        [raw[i] EXCEPT !.instance_pred = IF skip_class(@) THEN NO_INSTANCE ELSE @,
                       !.instance_gt = IF skip_class(@) THEN NO_INSTANCE ELSE @]]

C10_SkippedAsIfAbsent ==
    \A f \in done :
        /\ \A i \in DOMAIN mappings[f] :
            ~skip_class(mappings[f][i].instance_pred) /\ ~skip_class(mappings[f][i].instance_gt)
        /\ mappings[f] = get_confusion_info(f, without_skipped(disk[f]), {})

\* a skipped prediction of higher confidence lies on the ground truth that a
\* remaining prediction is matched to
C10_Witness ==
    \E f \in done : \E p \in P(f) : \E g \in G(f) :
        \E q \in {pred_col(f)[i] : i \in DOMAIN pred_col(f)} :
            /\ skip_class(q)
            /\ above_threshold(f, q, g)
            /\ confidence(pred_col(f), conf_col(f), q) > confidence(pred_col(f), conf_col(f), p)
            /\ \E i \in DOMAIN mappings[f] :
                /\ is_match(mappings[f][i])
                /\ mappings[f][i].instance_pred = p
                /\ mappings[f][i].instance_gt = g

----------------------------------------------------------------------------
\* C11: the aggregation does not depend on the order in which the per-scene
\* tables are merged: for every permutation of the scenes, get_info gives the
\* same mtx, the same confusion_info and the same records, each as often.
permuted(tables, perm) == [i \in DOMAIN tables |-> tables[perm[i]]]

occurrences(T, r) == Cardinality({i \in DOMAIN T : T[i] = r})

same_records(T, U) ==
    \A r \in {T[i] : i \in DOMAIN T} \cup {U[i] : i \in DOMAIN U} :
        occurrences(T, r) = occurrences(U, r)

C11_MergeOrderIrrelevant ==
    pc = "done"
        => \A perm \in Permutations(DOMAIN mappings) :
            LET data == get_info(permuted(mappings, perm), sem2ins_classes)
            IN  /\ data.mtx = mtx
                /\ data.confusion_info = confusion_info
                /\ same_records(data.infer_info, infer_info)

\* two scenes with different records, so that the other merge order gives
\* another sequence of records
C11_Witness ==
    /\ pc = "done"
    /\ Len(disk) >= 2
    /\ \E i \in DOMAIN infer_info : is_match(infer_info[i])
    /\ \E i \in DOMAIN infer_info : is_fp(infer_info[i])
    /\ \E perm \in Permutations(DOMAIN mappings) :
        get_info(permuted(mappings, perm), sem2ins_classes).infer_info # infer_info

----------------------------------------------------------------------------
\* C12: in whatever order the workers return, get_info merges the tables in
\* the sorted order of the scene files: the merged table and the matrix are
\* those the scene files determine, so two runs on the same files agree.
C12_MergedInFileOrder ==
    (pc = "done" /\ done = DOMAIN disk)
        => /\ \A i, j \in DOMAIN infer_info :
                i < j => infer_info[i].scene <= infer_info[j].scene
           /\ LET data == get_info(tables_of(disk, sem2ins_classes), sem2ins_classes)
              IN  /\ infer_info = data.infer_info
                  /\ confusion_info = data.confusion_info
                  /\ mtx = data.mtx

\* the worker of the second file returned before that of the first, and both
\* have records
C12_Witness ==
    /\ pc = "done"
    /\ Len(finished) >= 2
    /\ finished[1] > finished[2]
    /\ \A f \in DOMAIN mappings : Len(mappings[f]) >= 1
    /\ infer_info[1].scene = 1

----------------------------------------------------------------------------
(* C13: a failing scene aborts the whole run *)

the_key == info_key(scenes_folder, classes)

fields == <<infer_info, confusion_info, mtx>>

\* C13: once the worker of any one scene has raised, the run of get_info never
\* returns a result: no step of it builds a matrix from the other scenes,
\* stores under the run's key in the cache, or assigns infer_info,
\* confusion_info or mtx; the run can only go on mapping or end aborted.
C13_FailureAborts ==
    [][(pc = "mapping" /\ failed # {}) =>
           /\ pc' \in {"mapping", "aborted"}
           /\ cache' = cache
           /\ fields' = fields]_vars

\* a run aborted after another scene's worker had already returned its table:
\* nothing is cached and the three fields are still unset
C13_Witness ==
    /\ pc = "aborted"
    /\ failed # {}
    /\ \E f \in done : Len(mappings[f]) >= 1
    /\ the_key \notin DOMAIN cache
    /\ fields = << << >>, << >>, << >> >>

----------------------------------------------------------------------------
(* C14: the cache of load_info *)

stored(data) == <<data.infer_info, data.confusion_info, data.mtx>>

\* C14: the first call of load_info with a key runs the pipeline and stores its
\* triple under the key; a later call with the same key assigns exactly the
\* stored triple and runs nothing (no get_info, no worker), and the stored
\* triple never changes, whatever happened to the scene files in between.
C14_CacheHitReturnsStored ==
    [][/\ (calls' = calls + 1 /\ the_key \in DOMAIN cache) =>
              /\ fields' = stored(cache[the_key])
              /\ pc' = "done"
              /\ UNCHANGED <<runs, mappings, done, finished, failed>>
       /\ (calls' = calls + 1 /\ the_key \notin DOMAIN cache) =>
              /\ runs' = runs + 1
              /\ pc' = "mapping"
       /\ the_key \in DOMAIN cache => cache' = cache
       /\ (the_key \notin DOMAIN cache /\ the_key \in DOMAIN cache') =>
              /\ cache'[the_key] = get_info(tables_of(disk, sem2ins_classes), sem2ins_classes)
              /\ fields' = stored(cache'[the_key])]_vars

\* a second call answered from the cache after the scene files changed: one
\* pipeline run only, and the fields differ from what the files now give
C14_Witness ==
    /\ pc = "done"
    /\ calls >= 2
    /\ runs = 1
    /\ the_key \in DOMAIN cache
    /\ fields = stored(cache[the_key])
    /\ fields # stored(get_info(tables_of(disk, sem2ins_classes), sem2ins_classes))

----------------------------------------------------------------------------
(* C15: what next_scene returns *)

\* C15: whatever Next clicks and cell selections came before, every call of
\* next_scene returns a value, and the value is one of the option values of
\* the scene dropdown; a Next click on the last scene raises nothing.
C15_NextSceneReturnsOption ==
    returned.kind # "none" =>
        /\ returned.kind = "return"
        /\ \E f \in DOMAIN disk : scene_options(disk)[f].value = returned.value

----------------------------------------------------------------------------
(* C16: the singleton *)

\* C16: at most one PointCloudDashboard object is ever created, and the
\* global instance get() returns, with its configuration, is the object of the
\* first construction, whatever constructions followed.
C16_OneObjectOnly ==
    /\ Len(objects) <= 1
    /\ get # None => get = 1 /\ objects[get].sem2ins_classes = objects[1].sem2ins_classes

====
